---- MODULE Spec2Model ----
(***************************************************************************)
(* A model of Opm::TimeMap (lib/eclipse/EclipseState/Schedule/TimeMap.cpp): *)
(* the report-step timeline of a deck, its month/year boundary indices,    *)
(* its construction from a start time or from a deck's keywords, and its   *)
(* queries.  Timestamps are std::time_t seconds since 1970-01-01 UTC.      *)
(* Indices are the code's 0-based indices; m_timeList[i + 1] is the TLA+   *)
(* element of the code's m_timeList[i].                                    *)
(***************************************************************************)
EXTENDS Integers, Sequences, FiniteSets, TLC

VARIABLES
    m_timeList,               \* std::vector<std::time_t> m_timeList
    m_first_timestep_months,  \* std::vector<size_t> m_first_timestep_months
    m_first_timestep_years,   \* std::vector<size_t> m_first_timestep_years
    call,                     \* the last call made: [op, a] (name, arguments)
    ret,                      \* its outcome: [err, val]
    ctor,                     \* which constructor built the object: "time" or "deck"
    t0,                       \* the argument of TimeMap(std::time_t), 0 after TimeMap(deck)
    pushed,                   \* the strictly increasing timestamps fed to the object since TimeMap(std::time_t)
    rawKeywords,              \* the RawKeyword objects under construction, oldest first
    handed,                   \* the tokenizer's events in order: groups opened, groups closed and handed over
    lines,                    \* the text lines the tokenizer has consumed
    atEnd,                    \* the tokenizer has seen the end of its input
    monthIndices,             \* static std::map<std::string, int> monthIndices of eclipseMonthIndices()
    threads                   \* per thread parsing a date record: [pc, inserted, month, ret]

timeMapVars == <<m_timeList, m_first_timestep_months, m_first_timestep_years, call, ret, ctor, t0, pushed>>

tokenizerVars == <<rawKeywords, handed, lines, atEnd>>

threadVars == <<monthIndices, threads>>

vars == <<timeMapVars, tokenizerVars, threadVars>>

(***************************************************************************)
(* Bounds of the model.                                                    *)
(***************************************************************************)
MaxLen == 4        \* addTime / addTStep are called while size() < MaxLen
MaxDeckLen == 3    \* keywords in a deck
MaxFreq == 3       \* the largest frequency asked of the periodic query

(***************************************************************************)
(* UTC calendar arithmetic of the ert utility library (timegm / gmtime_r). *)
(***************************************************************************)
SecPerDay == 24 * 60 * 60

\* Days from 1970-01-01 to the proleptic Gregorian date (y, m, d), m in 1..12;
\* linear in d, so an overflowing day of month wraps into the next month.
DaysFromCivil(y, m, d) ==
    LET yy  == IF m <= 2 THEN y - 1 ELSE y
        era == yy \div 400
        yoe == yy - era * 400
        mp  == IF m > 2 THEN m - 3 ELSE m + 9
        doy == (153 * mp + 2) \div 5 + d - 1
        doe == yoe * 365 + yoe \div 4 - yoe \div 100 + doy
    IN  era * 146097 + doe - 719468

\* The date [day, month, year] of the day z days after 1970-01-01.
CivilFromDays(z) ==
    LET zz  == z + 719468
        era == zz \div 146097
        doe == zz - era * 146097
        yoe == (doe - doe \div 1460 + doe \div 36524 - doe \div 146096) \div 365
        doy == doe - (365 * yoe + yoe \div 4 - yoe \div 100)
        mp  == (5 * doy + 2) \div 153
        d   == doy - (153 * mp + 2) \div 5 + 1
        m   == IF mp < 10 THEN mp + 3 ELSE mp - 9
        y   == yoe + era * 400
    IN  [day |-> d, month |-> m, year |-> IF m <= 2 THEN y + 1 ELSE y]

\* util_make_datetime_utc(sec, min, hour, mday, month, year): timegm of the
\* broken-down time, which normalises out-of-range fields by carrying them.
util_make_datetime_utc(sec, min, hour, mday, month, year) ==
    LET y == year + (month - 1) \div 12
        m == ((month - 1) % 12) + 1
    IN  DaysFromCivil(y, m, mday) * SecPerDay + hour * 3600 + min * 60 + sec

\* util_set_date_values_utc(t, &day, &month, &year): gmtime_r of t.
util_set_date_values_utc(t) == CivilFromDays(t \div SecPerDay)

(***************************************************************************)
(* The object: [timeList, months, years].  Every operation of the class is *)
(* an operator from the object (and arguments) to [err, tm] or [err, val]. *)
(***************************************************************************)
NoError == "none"
OrderingViolation == "Times added must be in strictly increasing order."
IndexOutOfRange == "Index out of range"
InvalidDate == "Invalid input arguments for date."
UnknownMonth == "map::at"
AssertionFailed == "assertion failed"

Last(s) == s[Len(s)]

TimeMapObject == [timeList |-> m_timeList,
                  months |-> m_first_timestep_months,
                  years |-> m_first_timestep_years]

\* TimeMap::TimeMap(std::time_t startTime)
TimeMapFromTime(startTime) ==
    [timeList |-> <<startTime>>, months |-> <<>>, years |-> <<>>]

size(tm) == Len(tm.timeList)

numTimesteps(tm) == Len(tm.timeList) - 1

\* A plausible slip: ">=" for ">" in the ordering test.
addTime_AcceptsEqual(tm, newTime) ==
    LET lastTime == Last(tm.timeList)
        step     == Len(tm.timeList)
    IN  IF newTime >= lastTime
        THEN [err |-> NoError,
              tm  |-> [tm EXCEPT !.timeList = Append(@, newTime)]]
        ELSE [err |-> OrderingViolation, tm |-> tm]

\* A plausible slip: the boundary indices are recorded before the ordering test.
addTime_IndexBeforeTest(tm, newTime) ==
    LET lastTime == Last(tm.timeList)
        step     == Len(tm.timeList)
        new      == util_set_date_values_utc(newTime)
        last     == util_set_date_values_utc(lastTime)
        months   == IF new.month # last.month THEN Append(tm.months, step) ELSE tm.months
        years    == IF new.year # last.year THEN Append(tm.years, step) ELSE tm.years
    IN  IF newTime > lastTime
        THEN [err |-> NoError,
              tm  |-> [timeList |-> Append(tm.timeList, newTime), months |-> months, years |-> years]]
        ELSE [err |-> OrderingViolation,
              tm  |-> [timeList |-> tm.timeList, months |-> months, years |-> years]]

\* A plausible slip: the new time replaces the last one instead of following it.
addTime_Overwrites(tm, newTime) ==
    LET lastTime == Last(tm.timeList)
        n        == Len(tm.timeList)
    IN  IF newTime > lastTime
        THEN [err |-> NoError,
              tm  |-> [tm EXCEPT !.timeList = IF n >= 2 THEN [@ EXCEPT ![n] = newTime]
                                                        ELSE Append(@, newTime)]]
        ELSE [err |-> OrderingViolation, tm |-> tm]

\* A plausible slip: the day of month is compared where the month is meant.
addTime_ComparesDay(tm, newTime) ==
    LET lastTime == Last(tm.timeList)
        step     == Len(tm.timeList)
        new      == util_set_date_values_utc(newTime)
        last     == util_set_date_values_utc(lastTime)
    IN  IF newTime > lastTime
        THEN [err |-> NoError,
              tm  |-> [timeList |-> Append(tm.timeList, newTime),
                       months   |-> IF new.day # last.day
                                    THEN Append(tm.months, step) ELSE tm.months,
                       years    |-> IF new.year # last.year
                                    THEN Append(tm.years, step) ELSE tm.years]]
        ELSE [err |-> OrderingViolation, tm |-> tm]

\* A plausible slip: the boundary index is inserted at the front of its vector.
addTime_InsertsFront(tm, newTime) ==
    LET lastTime == Last(tm.timeList)
        step     == Len(tm.timeList)
        new      == util_set_date_values_utc(newTime)
        last     == util_set_date_values_utc(lastTime)
    IN  IF newTime > lastTime
        THEN [err |-> NoError,
              tm  |-> [timeList |-> Append(tm.timeList, newTime),
                       months   |-> IF new.month # last.month
                                    THEN <<step>> \o tm.months ELSE tm.months,
                       years    |-> IF new.year # last.year
                                    THEN <<step>> \o tm.years ELSE tm.years]]
        ELSE [err |-> OrderingViolation, tm |-> tm]

\* A plausible slip: the boundary is recorded at the index of the last stored
\* timestamp, not at the index of the new one.
addTime_IndexOfPrevious(tm, newTime) ==
    LET lastTime == Last(tm.timeList)
        step     == Len(tm.timeList) - 1
        new      == util_set_date_values_utc(newTime)
        last     == util_set_date_values_utc(lastTime)
    IN  IF newTime > lastTime
        THEN [err |-> NoError,
              tm  |-> [timeList |-> Append(tm.timeList, newTime),
                       months   |-> IF new.month # last.month
                                    THEN Append(tm.months, step) ELSE tm.months,
                       years    |-> IF new.year # last.year
                                    THEN Append(tm.years, step) ELSE tm.years]]
        ELSE [err |-> OrderingViolation, tm |-> tm]

\* void TimeMap::addTime(std::time_t newTime)
addTime(tm, newTime) ==
    LET lastTime == Last(tm.timeList)
        step     == Len(tm.timeList)
        new      == util_set_date_values_utc(newTime)
        last     == util_set_date_values_utc(lastTime)
    IN  IF newTime > lastTime
        THEN [err |-> NoError,
              tm  |-> [timeList |-> Append(tm.timeList, newTime),
                       months   |-> IF new.month # last.month
                                    THEN Append(tm.months, step) ELSE tm.months,
                       years    |-> IF new.year # last.year
                                    THEN Append(tm.years, step) ELSE tm.years]]
        ELSE [err |-> OrderingViolation, tm |-> tm]

\* std::time_t TimeMap::forward(std::time_t t, int64_t seconds)
forward(t, seconds) == t + seconds

\* void TimeMap::addTStep(int64_t step)
addTStep(tm, step) == addTime(tm, forward(Last(tm.timeList), step))

\* A plausible slip: the last valid index is refused.
At_RefusesLast(tm, index) ==
    IF index < Len(tm.timeList) - 1
    THEN [err |-> NoError, val |-> tm.timeList[index + 1]]
    ELSE [err |-> IndexOutOfRange, val |-> 0]

\* std::time_t TimeMap::operator[] (size_t index) const
At(tm, index) ==
    IF index < Len(tm.timeList)
    THEN [err |-> NoError, val |-> tm.timeList[index + 1]]
    ELSE [err |-> IndexOutOfRange, val |-> 0]

\* What a read past the end of m_timeList may yield.
GarbageValues == {0, 1000000000}

\* m_timeList[i] as the build reads it: the element, or anything past the end.
ReadTimeList(tm, i) ==
    IF i < Len(tm.timeList) THEN {tm.timeList[i + 1]} ELSE GarbageValues

\* double TimeMap::getTimeStepLength(size_t tStepIdx) const: the set of its
\* outcomes.  With assertions compiled in, an index that is no step aborts;
\* with NDEBUG the reads go past the end of the vector and a value comes back.
getTimeStepLength(tm, tStepIdx) ==
    IF tStepIdx < numTimesteps(tm)
    THEN {[err |-> NoError, val |-> tm.timeList[tStepIdx + 2] - tm.timeList[tStepIdx + 1]]}
    ELSE {[err |-> AssertionFailed, val |-> 0]}
         \cup {[err |-> NoError, val |-> t2 - t1] :
                  t1 \in ReadTimeList(tm, tStepIdx), t2 \in ReadTimeList(tm, tStepIdx + 1)}

\* A plausible slip: "size() <= 2" for "size() < 2".
getTotalTime_ShortGuard(tm) ==
    IF Len(tm.timeList) <= 2
    THEN 0
    ELSE Last(tm.timeList) - Head(tm.timeList)

\* double TimeMap::getTotalTime() const
getTotalTime(tm) ==
    IF Len(tm.timeList) < 2
    THEN 0
    ELSE Last(tm.timeList) - Head(tm.timeList)

\* double TimeMap::getTimePassedUntil(size_t tLevelIdx) const: the set of its
\* outcomes.  With assertions compiled in, an index that is no time level
\* aborts; with NDEBUG the read goes past the end of the vector.
getTimePassedUntil(tm, tLevelIdx) ==
    IF tLevelIdx < Len(tm.timeList)
    THEN {[err |-> NoError, val |-> tm.timeList[tLevelIdx + 1] - Head(tm.timeList)]}
    ELSE {[err |-> AssertionFailed, val |-> 0]}
         \cup {[err |-> NoError, val |-> t2 - Head(tm.timeList)] :
                  t2 \in ReadTimeList(tm, tLevelIdx)}

\* const std::vector<size_t>& getFirstTimestepMonths() const
getFirstTimestepMonths(tm) == tm.months

\* const std::vector<size_t>& getFirstTimestepYears() const
getFirstTimestepYears(tm) == tm.years

\* std::find(vec.begin(), vec.end(), x) as a position: 1 .. Len(vec), or
\* Len(vec) + 1 for vec.end().
Find(vec, x) ==
    IF \E i \in 1 .. Len(vec) : vec[i] = x
    THEN CHOOSE i \in 1 .. Len(vec) : vec[i] = x /\ \A j \in 1 .. i - 1 : vec[j] # x
    ELSE Len(vec) + 1

\* std::lower_bound(vec.begin(), vec.end(), value) on the sorted vec, as a position.
LowerBound(vec, value) ==
    IF \E i \in 1 .. Len(vec) : vec[i] >= value
    THEN CHOOSE i \in 1 .. Len(vec) : vec[i] >= value /\ \A j \in 1 .. i - 1 : vec[j] < value
    ELSE Len(vec) + 1

\* size_t TimeMap::closest(const std::vector<size_t>& vec, size_t value) const
closest(vec, value) ==
    LET ci == LowerBound(vec, value)
    IN  IF ci # Len(vec) + 1 THEN vec[ci] ELSE 0

\* A plausible slip: the distance is taken without the "+ 1".
isTimestepInFreqSequence_NoPlusOne(tm, timestep, start_timestep, frequency, years) ==
    LET timesteps == IF years THEN getFirstTimestepYears(tm) ELSE getFirstTimestepMonths(tm)
        ci_timestep == Find(timesteps, timestep)
        found == Find(timesteps, start_timestep)
        new_start == closest(timesteps, start_timestep)
        ci_start_timestep ==
            IF found # Len(timesteps) + 1 THEN found
            ELSE IF 0 # new_start THEN Find(timesteps, new_start)
            ELSE found
        start_ts_in_timesteps == found # Len(timesteps) + 1 \/ 0 # new_start
    IN  /\ start_ts_in_timesteps
        /\ ci_timestep >= ci_start_timestep
        /\ (ci_timestep - ci_start_timestep) % frequency = 0

\* A plausible slip: the sequence is taken to start one position before the
\* position of start_timestep.
isTimestepInFreqSequence_FromOneBefore(tm, timestep, start_timestep, frequency, years) ==
    LET timesteps == IF years THEN getFirstTimestepYears(tm) ELSE getFirstTimestepMonths(tm)
        ci_timestep == Find(timesteps, timestep)
        found == Find(timesteps, start_timestep)
        new_start == closest(timesteps, start_timestep)
        ci_start_timestep ==
            IF found # Len(timesteps) + 1 THEN found
            ELSE IF 0 # new_start THEN Find(timesteps, new_start)
            ELSE found
        start_ts_in_timesteps == found # Len(timesteps) + 1 \/ 0 # new_start
        dist == (ci_timestep - ci_start_timestep) + 1
    IN  /\ start_ts_in_timesteps
        /\ ci_timestep >= ci_start_timestep - 1
        /\ dist % frequency = 0

\* bool TimeMap::isTimestepInFreqSequence(size_t timestep, size_t start_timestep,
\*                                        size_t frequency, bool years) const
isTimestepInFreqSequence(tm, timestep, start_timestep, frequency, years) ==
    LET timesteps == IF years THEN getFirstTimestepYears(tm) ELSE getFirstTimestepMonths(tm)
        ci_timestep == Find(timesteps, timestep)
        found == Find(timesteps, start_timestep)
        new_start == closest(timesteps, start_timestep)
        ci_start_timestep ==
            IF found # Len(timesteps) + 1 THEN found
            ELSE IF 0 # new_start THEN Find(timesteps, new_start)
            ELSE found
        start_ts_in_timesteps == found # Len(timesteps) + 1 \/ 0 # new_start
        dist == (ci_timestep - ci_start_timestep) + 1
    IN  /\ start_ts_in_timesteps
        /\ ci_timestep >= ci_start_timestep
        /\ dist % frequency = 0

\* A plausible slip: "1 > frequency" for "1 >= frequency".
isTimestepInFirstOfMonthsYearsSequence_StrictOne(tm, timestep, years, start_timestep, frequency) ==
    LET timesteps == IF years THEN getFirstTimestepYears(tm) ELSE getFirstTimestepMonths(tm)
        ci_timestep == Find(timesteps, timestep)
    IN  IF ci_timestep # Len(timesteps) + 1
        THEN IF 1 > frequency
             THEN TRUE
             ELSE isTimestepInFreqSequence(tm, timestep, start_timestep, frequency, years)
        ELSE FALSE

\* bool TimeMap::isTimestepInFirstOfMonthsYearsSequence(size_t timestep, bool years,
\*                                   size_t start_timestep, size_t frequency) const
isTimestepInFirstOfMonthsYearsSequence(tm, timestep, years, start_timestep, frequency) ==
    LET timesteps == IF years THEN getFirstTimestepYears(tm) ELSE getFirstTimestepMonths(tm)
        ci_timestep == Find(timesteps, timestep)
    IN  IF ci_timestep # Len(timesteps) + 1
        THEN IF 1 >= frequency
             THEN TRUE
             ELSE isTimestepInFreqSequence(tm, timestep, start_timestep, frequency, years)
        ELSE FALSE

\* A plausible slip: the wrap-around test is left out.
mkdatetime_NoWrapTest(in_year, in_month, in_day, hour, minute, second) ==
    [err |-> NoError,
     val |-> util_make_datetime_utc(second, minute, hour, in_day, in_month, in_year)]

\* std::time_t TimeMap::mkdatetime(int in_year, int in_month, int in_day,
\*                                 int hour, int minute, int second)
mkdatetime(in_year, in_month, in_day, hour, minute, second) ==
    LET t   == util_make_datetime_utc(second, minute, hour, in_day, in_month, in_year)
        out == util_set_date_values_utc(t)
    IN  IF in_day # out.day \/ in_month # out.month \/ in_year # out.year
        THEN [err |-> InvalidDate, val |-> 0]
        ELSE [err |-> NoError, val |-> t]

\* std::time_t TimeMap::mkdate(int in_year, int in_month, int in_day)
mkdate(in_year, in_month, in_day) == mkdatetime(in_year, in_month, in_day, 0, 0, 0)

(***************************************************************************)
(* The deck.  A deck is a sequence of keywords [name, records].  A START   *)
(* or DATES record is [day, month, year, time]: the day and year items,    *)
(* the month token, and the time item as the integers a "%d:%d:%d" scan    *)
(* converts from it (<<>> when the item has no value).  TSTEP has one      *)
(* record, whose first item lists the day-counts [num, den] = num / den.   *)
(***************************************************************************)
\* const std::map<std::string, int>& TimeMap::eclipseMonthIndices()
eclipseMonthIndices ==
    [JAN |-> 1, FEB |-> 2, MAR |-> 3, APR |-> 4, MAI |-> 5, MAY |-> 5, JUN |-> 6,
     JUL |-> 7, JLY |-> 7, AUG |-> 8, SEP |-> 9, OCT |-> 10, OKT |-> 10, NOV |-> 11,
     DEC |-> 12, DES |-> 12]

\* bool Deck::hasKeyword(const std::string& keyword) const
hasKeyword(deck, name) == \E i \in 1 .. Len(deck) : deck[i].name = name

\* const DeckKeyword& Deck::getKeyword(const std::string& keyword) const
getKeyword(deck, name) == deck[CHOOSE i \in 1 .. Len(deck) : deck[i].name = name]

\* sscanf(time, "%d:%d:%d", &hour, &min, &second): the number of conversions.
sscanf(timeItem) == IF Len(timeItem) < 3 THEN Len(timeItem) ELSE 3

\* std::time_t TimeMap::timeFromEclipse(const DeckRecord& dateRecord)
timeFromEclipse(dateRecord) ==
    LET scanned == Len(dateRecord.time) > 0 /\ sscanf(dateRecord.time) = 3
        hour    == IF scanned THEN dateRecord.time[1] ELSE 0
        min     == IF scanned THEN dateRecord.time[2] ELSE 0
        second  == IF scanned THEN dateRecord.time[3] ELSE 0
    IN  IF dateRecord.month \in DOMAIN eclipseMonthIndices
        THEN mkdatetime(dateRecord.year, eclipseMonthIndices[dateRecord.month],
                        dateRecord.day, hour, min, second)
        ELSE [err |-> UnknownMonth, val |-> 0]

\* The loop of addFromDATESKeyword from record recordIndex (0-based) on.
RECURSIVE addDATESRecords(_, _, _)
addDATESRecords(tm, DATESKeyword, recordIndex) ==
    IF recordIndex < Len(DATESKeyword.records)
    THEN LET nextTime == timeFromEclipse(DATESKeyword.records[recordIndex + 1])
             added    == addTime(tm, nextTime.val)
         IN  IF nextTime.err # NoError THEN [err |-> nextTime.err, tm |-> tm]
             ELSE IF added.err # NoError THEN added
             ELSE addDATESRecords(added.tm, DATESKeyword, recordIndex + 1)
    ELSE [err |-> NoError, tm |-> tm]

\* void TimeMap::addFromDATESKeyword(const DeckKeyword& DATESKeyword)
addFromDATESKeyword(tm, DATESKeyword) ==
    IF DATESKeyword.name # "DATES"
    THEN [err |-> "Method requires DATES keyword input.", tm |-> tm]
    ELSE addDATESRecords(tm, DATESKeyword, 0)

\* static_cast<int64_t>(days * 24 * 60 * 60) of the day-count num / den:
\* the product, truncated towards zero.
SecondsOfDays(days) ==
    LET n == days.num * 24 * 60 * 60
    IN  IF n >= 0 THEN n \div days.den ELSE 0 - ((0 - n) \div days.den)

\* The loop of addFromTSTEPKeyword from item itemIndex (0-based) on.
RECURSIVE addTSTEPItems(_, _, _)
addTSTEPItems(tm, item, itemIndex) ==
    IF itemIndex < Len(item)
    THEN LET seconds == SecondsOfDays(item[itemIndex + 1])
             added   == addTStep(tm, seconds)
         IN  IF added.err # NoError THEN added
             ELSE addTSTEPItems(added.tm, item, itemIndex + 1)
    ELSE [err |-> NoError, tm |-> tm]

\* void TimeMap::addFromTSTEPKeyword(const DeckKeyword& TSTEPKeyword)
addFromTSTEPKeyword(tm, TSTEPKeyword) ==
    IF TSTEPKeyword.name # "TSTEP"
    THEN [err |-> "Method requires TSTEP keyword input.", tm |-> tm]
    ELSE addTSTEPItems(tm, TSTEPKeyword.records[1][1], 0)

\* The keyword loop of TimeMap::TimeMap(const Deck&) from keyword i (1-based) on.
RECURSIVE addKeywords(_, _, _)
addKeywords(tm, deck, i) ==
    IF i > Len(deck) THEN [err |-> NoError, tm |-> tm]
    ELSE LET keyword == deck[i] IN
         IF keyword.name # "TSTEP" /\ keyword.name # "DATES"
         THEN addKeywords(tm, deck, i + 1)
         ELSE LET added == IF keyword.name = "TSTEP"
                           THEN addFromTSTEPKeyword(tm, keyword)
                           ELSE addFromDATESKeyword(tm, keyword)
              IN  IF added.err # NoError THEN added
                  ELSE addKeywords(added.tm, deck, i + 1)

DefaultStartYear == 1983

\* A plausible slip: "break" for "continue" at a keyword that is neither TSTEP nor DATES.
TimeMapFromDeck_BreaksOnOther(deck) ==
    LET start == IF hasKeyword(deck, "START")
                 THEN timeFromEclipse(getKeyword(deck, "START").records[1])
                 ELSE mkdate(DefaultStartYear, 1, 1)
        other == {i \in 1 .. Len(deck) : deck[i].name \notin {"TSTEP", "DATES"}}
        upto  == IF other = {} THEN Len(deck)
                 ELSE (CHOOSE i \in other : \A j \in other : i <= j) - 1
    IN  IF start.err # NoError
        THEN [err |-> start.err, tm |-> TimeMapFromTime(0)]
        ELSE addKeywords(TimeMapFromTime(start.val), SubSeq(deck, 1, upto), 1)

\* TimeMap::TimeMap(const Deck& deck): [err, tm]; an exception leaves no object.
TimeMapFromDeck(deck) ==
    LET start == IF hasKeyword(deck, "START")
                 THEN timeFromEclipse(getKeyword(deck, "START").records[1])
                 ELSE mkdate(DefaultStartYear, 1, 1)
    IN  IF start.err # NoError
        THEN [err |-> start.err, tm |-> TimeMapFromTime(0)]
        ELSE addKeywords(TimeMapFromTime(start.val), deck, 1)

(***************************************************************************)
(* Inputs.                                                                 *)
(***************************************************************************)
\* Dates (day, month, year, hour) that the appended timestamps are drawn from:
\* pairs in one month, across a month, across a year, and a whole year apart.
InputDates == {<<1, 12, 2019, 0>>, <<31, 12, 2019, 12>>, <<1, 1, 2020, 0>>,
               <<15, 1, 2020, 0>>, <<1, 12, 2020, 0>>, <<1, 1, 2021, 0>>}

TimeInputs == {util_make_datetime_utc(0, 0, d[4], d[1], d[2], d[3]) : d \in InputDates}

\* int64_t seconds given to addTStep.
StepInputs == {0, 31 * SecPerDay}

\* (year, month, day, hour, minute, second) given to mkdatetime.
DateInputs == {<<y, m, d, h, 0, 0>> :
                  y \in {2020, 2021}, m \in {2, 4, 13}, d \in {0, 29, 30, 31}, h \in {0, 24}}

DateRecord(day, month, year, time) ==
    [day |-> day, month |-> month, year |-> year, time |-> time]

Days(num, den) == [num |-> num, den |-> den]

\* The keywords the decks are made of.
KeywordInputs ==
    {[name |-> "START", records |-> <<DateRecord(1, "JAN", 2020, <<>>)>>],
     [name |-> "START", records |-> <<DateRecord(30, "FEB", 2021, <<>>)>>],
     [name |-> "DATES", records |-> <<DateRecord(1, "FEB", 2020, <<12, 30>>),
                                      DateRecord(1, "MAI", 2020, <<6, 0, 0>>)>>],
     [name |-> "DATES", records |-> <<DateRecord(31, "APR", 2021, <<>>)>>],
     [name |-> "DATES", records |-> <<DateRecord(1, "XXX", 2021, <<>>)>>],
     [name |-> "TSTEP", records |-> << <<  <<Days(10, 1), Days(11, 2)>>  >> >>],
     [name |-> "TSTEP", records |-> << <<  <<Days(1, 172800)>>  >> >>],
     [name |-> "WELSPECS", records |-> <<>>]}

\* Decks of at most MaxDeckLen keywords, START at most once.
DeckInputs ==
    {deck \in UNION {[1 .. n -> KeywordInputs] : n \in 0 .. MaxDeckLen} :
        Cardinality({i \in 1 .. Len(deck) : deck[i].name = "START"}) <= 1}

Mutators == {"TimeMap(time)", "TimeMap(deck)", "addTime", "addTStep"}

\* A failed assertion ends the process.  A query, or a call that failed,
\* changes nothing of the object, so what can follow it is what can follow
\* the call before it: the model goes on from the state the last successful
\* constructor or append left, which has the same object.
Ready == ret.err = NoError /\ call.op \in Mutators

(***************************************************************************)
(* Initial state and the actions.                                          *)
(***************************************************************************)
SetObject(tm) ==
    /\ m_timeList' = tm.timeList
    /\ m_first_timestep_months' = tm.months
    /\ m_first_timestep_years' = tm.years

\* After TimeMap::TimeMap(std::time_t startTime).
InitFromTime ==
    \E startTime \in TimeInputs :
        /\ m_timeList = TimeMapFromTime(startTime).timeList
        /\ m_first_timestep_months = TimeMapFromTime(startTime).months
        /\ m_first_timestep_years = TimeMapFromTime(startTime).years
        /\ call = [op |-> "TimeMap(time)", a |-> <<startTime>>]
        /\ ret = [err |-> NoError, val |-> 0]
        /\ ctor = "time"
        /\ t0 = startTime
        /\ pushed = <<>>

\* The constructor TimeMap::TimeMap(const Deck&) applied to every input deck.
DeckResults == {[deck |-> deck, r |-> TimeMapFromDeck(deck)] : deck \in DeckInputs}

\* After TimeMap::TimeMap(const Deck& deck); when the constructor throws there
\* is no object (ctor = "none") and nothing can be called.
InitFromDeck ==
    \E made \in DeckResults :
        /\ m_timeList = IF made.r.err = NoError THEN made.r.tm.timeList ELSE <<>>
        /\ m_first_timestep_months = IF made.r.err = NoError THEN made.r.tm.months ELSE <<>>
        /\ m_first_timestep_years = IF made.r.err = NoError THEN made.r.tm.years ELSE <<>>
        /\ call = [op |-> "TimeMap(deck)", a |-> made.deck]
        /\ ret = [err |-> made.r.err, val |-> 0]
        /\ ctor = IF made.r.err = NoError THEN "deck" ELSE "none"
        /\ t0 = 0
        /\ pushed = <<>>

\* No text is being tokenized.
NoTokenizer ==
    /\ rawKeywords = <<>>
    /\ handed = <<>>
    /\ lines = <<>>
    /\ atEnd = FALSE

\* No thread is parsing a date record; the month table is as a finished
\* single-threaded first use leaves it.
NoThreads ==
    /\ monthIndices = eclipseMonthIndices
    /\ threads = <<>>

Init ==
    /\ InitFromTime \/ InitFromDeck
    /\ NoTokenizer
    /\ NoThreads

\* Last timestamp fed in strictly increasing order since TimeMap(std::time_t).
LastFed == IF pushed = <<>> THEN t0 ELSE Last(pushed)

Feed(t) ==
    pushed' = IF ctor = "time" /\ t > LastFed THEN Append(pushed, t) ELSE pushed

AddTime ==
    \E newTime \in TimeInputs :
        LET r == addTime(TimeMapObject, newTime) IN
        /\ Ready
        /\ Len(m_timeList) < MaxLen
        /\ SetObject(r.tm)
        /\ call' = [op |-> "addTime", a |-> <<newTime>>]
        /\ ret' = [err |-> r.err, val |-> 0]
        /\ Feed(newTime)
        /\ UNCHANGED <<ctor, t0, tokenizerVars, threadVars>>

AddTStep ==
    \E step \in StepInputs :
        LET r == addTStep(TimeMapObject, step) IN
        /\ Ready
        /\ Len(m_timeList) < MaxLen
        /\ SetObject(r.tm)
        /\ call' = [op |-> "addTStep", a |-> <<step>>]
        /\ ret' = [err |-> r.err, val |-> 0]
        /\ Feed(LastFed + step)
        /\ UNCHANGED <<ctor, t0, tokenizerVars, threadVars>>

GetAt ==
    \E index \in 0 .. MaxLen + 1 :
        LET r == At(TimeMapObject, index) IN
        /\ Ready
        /\ call' = [op |-> "operator[]", a |-> <<index>>]
        /\ ret' = r
        /\ UNCHANGED <<m_timeList, m_first_timestep_months, m_first_timestep_years, ctor, t0, pushed, tokenizerVars, threadVars>>

GetTimeStepLength ==
    \E tStepIdx \in 0 .. MaxLen :
        \E r \in getTimeStepLength(TimeMapObject, tStepIdx) :
            /\ Ready
            /\ call' = [op |-> "getTimeStepLength", a |-> <<tStepIdx>>]
            /\ ret' = r
            /\ UNCHANGED <<m_timeList, m_first_timestep_months, m_first_timestep_years, ctor, t0, pushed, tokenizerVars, threadVars>>

IsTimestepInFirstOfMonthsYearsSequence ==
    \E timestep \in 0 .. MaxLen - 1, years \in BOOLEAN, start_timestep \in 0 .. MaxLen,
       frequency \in 0 .. MaxFreq :
        /\ Ready
        /\ call' = [op |-> "isTimestepInFirstOfMonthsYearsSequence",
                    a |-> <<timestep, years, start_timestep, frequency>>]
        /\ ret' = [err |-> NoError,
                   val |-> isTimestepInFirstOfMonthsYearsSequence(
                               TimeMapObject, timestep, years, start_timestep, frequency)]
        /\ UNCHANGED <<m_timeList, m_first_timestep_months, m_first_timestep_years, ctor, t0, pushed, tokenizerVars, threadVars>>

GetTotalTime ==
    /\ Ready
    /\ call' = [op |-> "getTotalTime", a |-> <<>>]
    /\ ret' = [err |-> NoError, val |-> getTotalTime(TimeMapObject)]
    /\ UNCHANGED <<m_timeList, m_first_timestep_months, m_first_timestep_years, ctor, t0, pushed, tokenizerVars, threadVars>>

GetTimePassedUntil ==
    /\ Ready
    /\ \E tLevelIdx \in 0 .. MaxLen :
           \E r \in getTimePassedUntil(TimeMapObject, tLevelIdx) :
               /\ call' = [op |-> "getTimePassedUntil", a |-> <<tLevelIdx>>]
               /\ ret' = r
    /\ UNCHANGED <<m_timeList, m_first_timestep_months, m_first_timestep_years, ctor, t0, pushed, tokenizerVars, threadVars>>

MkDateTime ==
    \E d \in DateInputs :
        /\ Ready
        /\ call' = [op |-> "mkdatetime", a |-> d]
        /\ ret' = mkdatetime(d[1], d[2], d[3], d[4], d[5], d[6])
        /\ UNCHANGED <<m_timeList, m_first_timestep_months, m_first_timestep_years, ctor, t0, pushed, tokenizerVars, threadVars>>

Next ==
    \/ AddTime
    \/ AddTStep
    \/ GetAt
    \/ GetTimeStepLength
    \/ GetTotalTime
    \/ GetTimePassedUntil
    \/ IsTimestepInFirstOfMonthsYearsSequence
    \/ MkDateTime

Spec == Init /\ [][Next]_vars

(***************************************************************************)
(* The raw tokenizer: Opm::RawKeyword (opm/parser/eclipse/data/            *)
(* RawKeyword.hpp) and the loop that feeds it text lines.  The header      *)
(* declares the class; the bodies of its members and the loop are          *)
(* modelled from the specification's section 4.2.  A line of text is the   *)
(* sequence of its characters, a field the sequence of its characters, a   *)
(* record the sequence of its fields.                                      *)
(***************************************************************************)
MaxLines == 4            \* text lines fed to the tokenizer
MaxKeywordLength == 8    \* the "bounded length" of a keyword token

UpperCase == {"A", "B", "C", "D", "E", "F", "G", "H", "I", "J", "K", "L", "M",
              "N", "O", "P", "Q", "R", "S", "T", "U", "V", "W", "X", "Y", "Z"}

Digits == {"0", "1", "2", "3", "4", "5", "6", "7", "8", "9"}

InvalidKeyword == "invalid keyword"

\* str without its trailing blanks.
RECURSIVE RTrim(_)
RTrim(str) ==
    IF str # <<>> /\ str[Len(str)] = " "
    THEN RTrim(SubSeq(str, 1, Len(str) - 1))
    ELSE str

\* The blank-separated fields of str, in order.
RECURSIVE Fields(_, _)
Fields(str, field) ==
    IF str = <<>>
    THEN IF field = <<>> THEN <<>> ELSE <<field>>
    ELSE IF Head(str) = " "
    THEN (IF field = <<>> THEN <<>> ELSE <<field>>) \o Fields(Tail(str), <<>>)
    ELSE Fields(Tail(str), Append(field, Head(str)))

\* static bool RawKeyword::isValidKeyword(const std::string& keywordCandidate):
\* an uppercase alphanumeric identifier of bounded length.  A comment line
\* ("--") falls outside the character set.
isValidKeyword(keywordCandidate) ==
    /\ Len(keywordCandidate) \in 1 .. MaxKeywordLength
    /\ keywordCandidate[1] \in UpperCase
    /\ \A i \in 1 .. Len(keywordCandidate) : keywordCandidate[i] \in UpperCase \cup Digits

\* static bool RawKeyword::tryGetValidKeyword(const std::string& line,
\*                                            std::string& result)
\* (isKeywordLine): the normalized name is the line without trailing blanks.
tryGetValidKeyword(line) ==
    [ok |-> isValidKeyword(RTrim(line)), result |-> RTrim(line)]

\* RawKeyword::RawKeyword(const std::string& keyword) (beginGroup)
RawKeyword(keyword) ==
    IF isValidKeyword(keyword)
    THEN [err |-> NoError,
          rk  |-> [m_keyword |-> keyword, m_records |-> <<>>, m_partialRecordString |-> <<>>]]
    ELSE [err |-> InvalidKeyword, rk |-> <<>>]

\* The buffer holds one complete record: its last field is the terminator.
isTerminated(partialRecordString) ==
    /\ RTrim(partialRecordString) # <<>>
    /\ Last(RTrim(partialRecordString)) = "/"

\* The record a buffer is flushed into: its fields, a closing terminator not
\* among them.
RawRecord(partialRecordString) ==
    LET str == RTrim(partialRecordString)
    IN  IF isTerminated(str)
        THEN Fields(SubSeq(str, 1, Len(str) - 1), <<>>)
        ELSE Fields(str, <<>>)

\* void RawKeyword::addRawRecordString(const std::string& partialRecordString)
\* (feedLine)
addRawRecordString(rk, partialRecordString) ==
    LET buffer == rk.m_partialRecordString \o partialRecordString
    IN  IF isTerminated(buffer)
        THEN [rk EXCEPT !.m_records = Append(@, RawRecord(buffer)),
                        !.m_partialRecordString = <<>>]
        ELSE [rk EXCEPT !.m_partialRecordString = buffer]

\* Closing a group: a non-empty pending buffer is flushed as a final record.
finalize(rk) ==
    [keyword |-> rk.m_keyword,
     records |-> IF rk.m_partialRecordString # <<>>
                 THEN Append(rk.m_records, RawRecord(rk.m_partialRecordString))
                 ELSE rk.m_records]

Opened(keyword) == [ev |-> "open", keyword |-> keyword]

Closed(group) == [ev |-> "close", group |-> group]

\* A plausible slip: the new group is opened and the current one is left open.
keywordLine_KeepsOpen(open, log, keyword) ==
    [rawKeywords |-> Append(open, RawKeyword(keyword).rk),
     handed      |-> Append(log, Opened(keyword))]

\* A recognized keyword line: the current group, if any, is finalized and
\* handed to the caller, then the new group is begun.
keywordLine(open, log, keyword) ==
    [rawKeywords |-> <<RawKeyword(keyword).rk>>,
     handed      |-> log \o [i \in 1 .. Len(open) |-> Closed(finalize(open[i]))]
                         \o <<Opened(keyword)>>]

LineKEYWORDA == <<"K", "E", "Y", "W", "O", "R", "D", "A">>

LineKEYWORDB == <<"K", "E", "Y", "W", "O", "R", "D", "B">>

Line123 == <<"1", " ", "2", " ", "3", " ", "/">>

\* The lines fed: two keywords, a keyword followed by a blank, a name one
\* character too long, a terminated record, and a record over two lines.
LineInputs ==
    {LineKEYWORDA, LineKEYWORDB, Line123,
     <<"T", "S", "T", "E", "P", " ">>,
     <<"K", "E", "Y", "W", "O", "R", "D", "A", "B", " ">>,
     <<"4", "0", " ", "5", " ">>,
     <<"6", " ", "/">>}

InGroup == rawKeywords # <<>>

KeywordLine ==
    \E line \in LineInputs :
        LET r == keywordLine(rawKeywords, handed, tryGetValidKeyword(line).result) IN
        /\ ~atEnd
        /\ Len(lines) < MaxLines
        /\ tryGetValidKeyword(line).ok
        /\ rawKeywords' = r.rawKeywords
        /\ handed' = r.handed
        /\ lines' = Append(lines, line)
        /\ UNCHANGED <<atEnd, timeMapVars, threadVars>>

\* A line that is no keyword line: in InGroup it is fed to the current group;
\* the state machine has no transition for it in NoGroup, where it is skipped.
DataLine ==
    \E line \in LineInputs :
        /\ ~atEnd
        /\ Len(lines) < MaxLines
        /\ ~tryGetValidKeyword(line).ok
        /\ rawKeywords' = IF InGroup
                          THEN [rawKeywords EXCEPT ![Len(rawKeywords)] =
                                                       addRawRecordString(@, line)]
                          ELSE rawKeywords
        /\ lines' = Append(lines, line)
        /\ UNCHANGED <<handed, atEnd, timeMapVars, threadVars>>

EndOfInput ==
    /\ ~atEnd
    /\ atEnd' = TRUE
    /\ rawKeywords' = <<>>
    /\ handed' = handed \o [i \in 1 .. Len(rawKeywords) |-> Closed(finalize(rawKeywords[i]))]
    /\ UNCHANGED <<lines, timeMapVars, threadVars>>

\* No TimeMap object exists.
NoTimeMap ==
    /\ m_timeList = <<>>
    /\ m_first_timestep_months = <<>>
    /\ m_first_timestep_years = <<>>
    /\ call = [op |-> "none", a |-> <<>>]
    /\ ret = [err |-> NoError, val |-> 0]
    /\ ctor = "none"
    /\ t0 = 0
    /\ pushed = <<>>

InitTokenizer ==
    /\ NoTimeMap
    /\ NoTokenizer
    /\ NoThreads

NextTokenizer ==
    \/ KeywordLine
    \/ DataLine
    \/ EndOfInput

SpecTokenizer == InitTokenizer /\ [][NextTokenizer]_vars

(***************************************************************************)
(* Threads that each parse a date record: timeFromEclipse calls            *)
(* eclipseMonthIndices(), which fills the function-local static map        *)
(* monthIndices when it finds it empty, and looks the month name up in the *)
(* map it returns.  Nothing synchronizes the threads.  Each call on the    *)
(* map is one step; a lookup that overlaps another thread's inserts is a   *)
(* data race, whose outcome is the element or a miss.                      *)
(***************************************************************************)
Threads == {"t1", "t2"}

\* The month names of the date records the threads parse.
ThreadMonths == {"JAN", "MAI", "DES"}

\* The inserts of eclipseMonthIndices() in the order of the source.
monthInserts ==
    <<<<"JAN", 1>>, <<"FEB", 2>>, <<"MAR", 3>>, <<"APR", 4>>, <<"MAI", 5>>, <<"MAY", 5>>,
      <<"JUN", 6>>, <<"JUL", 7>>, <<"JLY", 7>>, <<"AUG", 8>>, <<"SEP", 9>>, <<"OCT", 10>>,
      <<"OKT", 10>>, <<"NOV", 11>>, <<"DEC", 12>>, <<"DES", 12>>>>

\* std::map::insert: an existing key keeps its value.
insert(map, pair) ==
    [k \in DOMAIN map \cup {pair[1]} |-> IF k \in DOMAIN map THEN map[k] ELSE pair[2]]

\* std::map::at
at(map, key) ==
    IF key \in DOMAIN map
    THEN [err |-> NoError, val |-> map[key]]
    ELSE [err |-> UnknownMonth, val |-> 0]

\* Another thread is between the first and the last of its inserts.
Populating(t) == \E u \in Threads \ {t} : threads[u].pc = "insert"

\* timeFromEclipse enters eclipseMonthIndices(): if (monthIndices.size() == 0)
TestSize(t) ==
    /\ threads[t].pc = "call"
    /\ threads' = [threads EXCEPT ![t].pc =
                       IF DOMAIN monthIndices = {} THEN "insert" ELSE "at"]
    /\ UNCHANGED <<monthIndices, timeMapVars, tokenizerVars>>

\* monthIndices.insert(std::make_pair(...)): the next of the sixteen.
Insert(t) ==
    /\ threads[t].pc = "insert"
    /\ monthIndices' = insert(monthIndices, monthInserts[threads[t].inserted + 1])
    /\ threads' = [threads EXCEPT
                       ![t].inserted = @ + 1,
                       ![t].pc = IF threads[t].inserted + 1 = Len(monthInserts)
                                 THEN "at" ELSE "insert"]
    /\ UNCHANGED <<timeMapVars, tokenizerVars>>

\* return monthIndices; and eclipseMonthIndices().at(monthItem.get<std::string>(0))
LookUp(t) ==
    /\ threads[t].pc = "at"
    /\ \E r \in {at(monthIndices, threads[t].month)}
                   \cup (IF Populating(t) THEN {[err |-> UnknownMonth, val |-> 0]} ELSE {}) :
           threads' = [threads EXCEPT ![t].pc = "done", ![t].ret = r]
    /\ UNCHANGED <<monthIndices, timeMapVars, tokenizerVars>>

InitThreads ==
    /\ NoTimeMap
    /\ NoTokenizer
    /\ monthIndices = [k \in {} |-> 0]
    /\ threads \in [Threads -> {[pc |-> "call", inserted |-> 0, month |-> m,
                                 ret |-> [err |-> NoError, val |-> 0]] :
                                    m \in ThreadMonths}]

NextThreads ==
    \E t \in Threads :
        \/ TestSize(t)
        \/ Insert(t)
        \/ LookUp(t)

SpecThreads == InitThreads /\ [][NextThreads]_vars

(***************************************************************************)
(* The properties.                                                         *)
(***************************************************************************)
Constructed == ctor # "none"

Elements(seq) == {seq[i] : i \in 1 .. Len(seq)}

\* C1: in every state of a constructed timeline, after any appends, successful
\* or failed, the timestamp sequence has length >= 1 and is strictly
\* increasing: timestampAt(i) < timestampAt(j) for all 0 <= i < j < length.
C1_StrictlyIncreasing ==
    Constructed =>
        /\ size(TimeMapObject) >= 1
        /\ \A i, j \in 0 .. size(TimeMapObject) - 1 :
               i < j => At(TimeMapObject, i).val < At(TimeMapObject, j).val

\* A timeline of three timestamps on which an append has just been refused.
C1_Witness ==
    /\ ctor = "time"
    /\ Len(m_timeList) = 3
    /\ call.op = "addTime"
    /\ ret.err = OrderingViolation

\* C2: append(t) with t <= the current last timestamp fails with the ordering
\* violation and leaves the timestamp sequence, the first-of-month indices and
\* the first-of-year indices as they were before the call.
C2_RefusedAppendChangesNothing ==
    [][(call'.op = "addTime" /\ call'.a[1] <= Last(m_timeList))
         => /\ ret'.err = OrderingViolation
            /\ UNCHANGED <<m_timeList, m_first_timestep_months, m_first_timestep_years>>]_vars

\* An append of an earlier time, in another month, refused on a timeline that
\* already has a month boundary.
C2_Witness ==
    /\ call.op = "addTime"
    /\ ret.err = OrderingViolation
    /\ call.a[1] < Last(m_timeList)
    /\ util_set_date_values_utc(call.a[1]).month # util_set_date_values_utc(Last(m_timeList)).month
    /\ Len(m_first_timestep_months) >= 1

\* C3: for timestamps t1 < ... < tn, each greater than t0, appended in order to
\* TimeMap(t0): numTimesteps() = n, size() = n + 1, operator[](0) = t0 and
\* operator[](i) = ti for 1 <= i <= n.  (pushed is t1 .. tn.)
C3_AppendsRoundTrip ==
    ctor = "time" =>
        /\ numTimesteps(TimeMapObject) = Len(pushed)
        /\ size(TimeMapObject) = Len(pushed) + 1
        /\ At(TimeMapObject, 0) = [err |-> NoError, val |-> t0]
        /\ \A i \in 1 .. Len(pushed) :
               At(TimeMapObject, i) = [err |-> NoError, val |-> pushed[i]]

\* Three timestamps appended in increasing order, by addTime and by addTStep.
C3_Witness ==
    /\ ctor = "time"
    /\ Len(pushed) = 3
    /\ call.op = "addTStep"
    /\ ret.err = NoError

\* The 0-based indices i, 0 < i < size(), whose timestamp and its predecessor
\* are told apart by differs, in increasing order.
BoundaryIndices(differs(_, _)) ==
    SelectSeq([i \in 1 .. Len(m_timeList) - 1 |-> i],
              LAMBDA i : differs(m_timeList[i + 1], m_timeList[i]))

MonthDiffers(t, u) == util_set_date_values_utc(t).month # util_set_date_values_utc(u).month

YearDiffers(t, u) == util_set_date_values_utc(t).year # util_set_date_values_utc(u).year

BoundarySeq(years) == IF years THEN m_first_timestep_years ELSE m_first_timestep_months

\* The 1-based rank of x in seq.
Rank(seq, x) == CHOOSE i \in 1 .. Len(seq) : seq[i] = x

HasAnchor(seq, periodStartIndex) == \E e \in Elements(seq) : e >= periodStartIndex

\* periodStartIndex if it is in seq, otherwise the smallest element >= it.
Anchor(seq, periodStartIndex) ==
    IF periodStartIndex \in Elements(seq) THEN periodStartIndex
    ELSE CHOOSE e \in Elements(seq) :
             /\ e >= periodStartIndex
             /\ \A f \in Elements(seq) : f >= periodStartIndex => e <= f

IsPeriodicQuery == call.op = "isTimestepInFirstOfMonthsYearsSequence"

\* C5: for frequency > 1 and index in S, with the anchor periodStartIndex if
\* it is in S and else the smallest element of S >= periodStartIndex: when the
\* anchor exists and index is at or after it in S, the answer is true exactly
\* when (rank of index - rank of anchor + 1) is a multiple of frequency.
C5_EveryNthFromAnchor ==
    IsPeriodicQuery =>
        LET index     == call.a[1]
            S         == BoundarySeq(call.a[2])
            start     == call.a[3]
            frequency == call.a[4]
        IN  (/\ frequency > 1
             /\ index \in Elements(S)
             /\ HasAnchor(S, start)
             /\ Rank(S, index) >= Rank(S, Anchor(S, start)))
            => (ret.val <=> (Rank(S, index) - Rank(S, Anchor(S, start)) + 1) % frequency = 0)

\* A true answer at frequency 2, one boundary after a substituted anchor.
C5_Witness ==
    /\ IsPeriodicQuery
    /\ call.a[4] = 2
    /\ call.a[3] \notin Elements(BoundarySeq(call.a[2]))
    /\ HasAnchor(BoundarySeq(call.a[2]), call.a[3])
    /\ call.a[1] \in Elements(BoundarySeq(call.a[2]))
    /\ call.a[1] > Anchor(BoundarySeq(call.a[2]), call.a[3])
    /\ ret.val = TRUE

\* C6: the answer is false whenever index is not in S, for every
\* periodStartIndex and frequency; and for frequency <= 1 (0 included) it is
\* true exactly when index is in S, whatever periodStartIndex is.
C6_MembershipAndUnitFrequency ==
    IsPeriodicQuery =>
        LET index     == call.a[1]
            S         == BoundarySeq(call.a[2])
            frequency == call.a[4]
        IN  /\ index \notin Elements(S) => ret.val = FALSE
            /\ frequency <= 1 => (ret.val <=> index \in Elements(S))

\* Frequency 1, a boundary index, and a periodStartIndex past every boundary.
C6_Witness ==
    /\ IsPeriodicQuery
    /\ call.a[4] = 1
    /\ call.a[1] \in Elements(BoundarySeq(call.a[2]))
    /\ ~HasAnchor(BoundarySeq(call.a[2]), call.a[3])
    /\ ret.val = TRUE

\* The timestamp a START or DATES record denotes (-1: its month token is no month).
DateOfRecord(rec) ==
    LET hms == IF Len(rec.time) = 3 THEN rec.time ELSE <<0, 0, 0>>
    IN  IF rec.month \in DOMAIN eclipseMonthIndices
        THEN util_make_datetime_utc(hms[3], hms[2], hms[1], rec.day,
                                    eclipseMonthIndices[rec.month], rec.year)
        ELSE 0 - 1

\* The START date of a deck, 1 January 1983 without a START keyword.
StartDate(deck) ==
    IF \E i \in 1 .. Len(deck) : deck[i].name = "START"
    THEN DateOfRecord((CHOOSE k \in Elements(deck) : k.name = "START").records[1])
    ELSE util_make_datetime_utc(0, 0, 0, 1, 1, 1983)

\* The DATES records and TSTEP day-counts of a deck in stream order.
RECURSIVE Entries(_)
Entries(deck) ==
    IF deck = <<>> THEN <<>>
    ELSE LET k == Head(deck)
             own == IF k.name = "DATES"
                    THEN [i \in 1 .. Len(k.records) |-> [date |-> TRUE, rec |-> k.records[i]]]
                    ELSE IF k.name = "TSTEP"
                    THEN [i \in 1 .. Len(k.records[1][1]) |->
                             [date |-> FALSE, days |-> k.records[1][1][i]]]
                    ELSE <<>>
         IN  own \o Entries(Tail(deck))

\* The timestamps that follow `times` for the entries: a DATES record gives its
\* date, a day-count d the previous timestamp plus d * 86400 s, truncated.
RECURSIVE Timestamps(_, _)
Timestamps(times, entries) ==
    IF entries = <<>> THEN times
    ELSE LET e == Head(entries)
             t == IF e.date THEN DateOfRecord(e.rec)
                  ELSE Last(times) + (e.days.num * 86400) \div e.days.den
         IN  Timestamps(Append(times, t), Tail(entries))

NamedLike(deck, names) == SelectSeq(deck, LAMBDA k : k.name \in names)

RECURSIVE SumLen(_)
SumLen(seqs) == IF seqs = <<>> THEN 0 ELSE Len(Head(seqs)) + SumLen(Tail(seqs))

DatesRecordCount(deck) ==
    LET dates == NamedLike(deck, {"DATES"})
    IN  SumLen([i \in 1 .. Len(dates) |-> dates[i].records])

TstepDayCount(deck) ==
    LET tsteps == NamedLike(deck, {"TSTEP"})
    IN  SumLen([i \in 1 .. Len(tsteps) |-> tsteps[i].records[1][1]])

ExampleDeck ==
    <<[name |-> "START", records |-> <<DateRecord(1, "JAN", 2020, <<>>)>>],
      [name |-> "TSTEP", records |-> << <<  <<Days(10, 1), Days(11, 2)>>  >> >>]>>

\* C7: a successful TimeMap(deck) holds the START date (1 January 1983 without
\* START) at index 0 and then, in stream order, one timestamp per DATES record
\* and one per TSTEP day-count d, the previous timestamp plus d * 86400 s
\* truncated; its size is 1 + the DATES records + the TSTEP day-counts;
\* keywords other than DATES and TSTEP, wherever they stand, change nothing;
\* START with TSTEP 10.0 5.5 gives 3 timestamps and the step lengths 864000
\* and 475200.
C7_TimelineOfDeck ==
    (call.op = "TimeMap(deck)" /\ ret.err = NoError) =>
        LET deck == call.a IN
        /\ m_timeList = Timestamps(<<StartDate(deck)>>, Entries(deck))
        /\ size(TimeMapObject) = 1 + DatesRecordCount(deck) + TstepDayCount(deck)
        /\ TimeMapFromDeck(NamedLike(deck, {"START", "DATES", "TSTEP"}))
               = [err |-> NoError, tm |-> TimeMapObject]
        /\ deck = ExampleDeck =>
               /\ size(TimeMapObject) = 3
               /\ getTimeStepLength(TimeMapObject, 0) = {[err |-> NoError, val |-> 864000]}
               /\ getTimeStepLength(TimeMapObject, 1) = {[err |-> NoError, val |-> 475200]}

\* The timeline of a deck whose TSTEP keyword follows a keyword of another name.
C7_Witness ==
    /\ call.op = "TimeMap(deck)"
    /\ ret.err = NoError
    /\ Len(call.a) = 2
    /\ call.a[1].name = "WELSPECS"
    /\ call.a[2].name = "TSTEP"
    /\ Len(m_timeList) = 3

\* C8: operator[](index) fails with "Index out of range" if and only if
\* index >= size(); for index < size() it returns the stored timestamp; in both
\* cases the timeline is unchanged.
C8_IndexedRead ==
    [][call'.op = "operator[]"
         => /\ ret'.err = IndexOutOfRange <=> call'.a[1] >= Len(m_timeList)
            /\ call'.a[1] < Len(m_timeList)
                   => ret' = [err |-> NoError, val |-> m_timeList[call'.a[1] + 1]]
            /\ UNCHANGED <<m_timeList, m_first_timestep_months, m_first_timestep_years>>]_vars

\* A read at index = size(), refused.
C8_Witness ==
    /\ call.op = "operator[]"
    /\ call.a[1] = Len(m_timeList)
    /\ ret.err = IndexOutOfRange

\* C9: getTimeStepLength(index) returns operator[](index + 1) - operator[](index)
\* for index < numTimesteps() and fails, returning no value, for every
\* index >= numTimesteps(), index = numTimesteps() on a timeline of one
\* timestamp included.
C9_StepLengthFailsPastTheEnd ==
    call.op = "getTimeStepLength" =>
        LET index == call.a[1] IN
        /\ index < numTimesteps(TimeMapObject)
               => ret = [err |-> NoError,
                         val |-> At(TimeMapObject, index + 1).val - At(TimeMapObject, index).val]
        /\ index >= numTimesteps(TimeMapObject) => ret.err # NoError

IsLeapYear(y) == y % 4 = 0 /\ (y % 100 # 0 \/ y % 400 = 0)

DaysInMonth(y, m) ==
    IF m = 2 THEN (IF IsLeapYear(y) THEN 29 ELSE 28)
    ELSE IF m \in {4, 6, 9, 11} THEN 30 ELSE 31

IsCalendarDate(y, m, d) == m \in 1 .. 12 /\ d \in 1 .. DaysInMonth(y, m)

\* The START and DATES records of a deck.
DateRecords(deck) ==
    UNION {Elements(deck[i].records) : i \in {j \in 1 .. Len(deck) : deck[j].name \in {"START", "DATES"}}}

\* C10: mkdatetime(year, month, day, hour, minute, second) returns a timestamp
\* only when the UTC date of that timestamp is the same (day, month, year);
\* every other input, (2021, 2, 30) or day 31 of a 30-day month among them,
\* fails with the invalid-date error instead of giving a timestamp in the
\* following month; so a deck with such a date record builds no timeline.
C10_DateConstruction ==
    /\ call.op = "mkdatetime" =>
           LET year == call.a[1]  month == call.a[2]  day == call.a[3] IN
           /\ ret.err \in {NoError, InvalidDate}
           /\ ret.err = NoError =>
                  /\ util_set_date_values_utc(ret.val) = [day |-> day, month |-> month, year |-> year]
                  /\ IsCalendarDate(year, month, day)
           /\ ~IsCalendarDate(year, month, day) => ret.err = InvalidDate
    /\ (call.op = "TimeMap(deck)" /\ ret.err = NoError) =>
           \A rec \in DateRecords(call.a) :
               /\ rec.month \in DOMAIN eclipseMonthIndices
               /\ IsCalendarDate(rec.year, eclipseMonthIndices[rec.month], rec.day)

\* 30 February 2021, refused.
C10_Witness ==
    /\ call.op = "mkdatetime"
    /\ call.a = <<2021, 2, 30, 0, 0, 0>>
    /\ ret.err = InvalidDate

IsAppend(op) == op \in {"addTime", "addTStep"}

\* C11: a successful append only extends the timeline: every stored timestamp
\* keeps its index and value, every element of the first-of-month and
\* first-of-year sequences stays in place, and each of the two gains at most
\* one element, the index of the new timestamp, at its end.
C11_AppendOnlyExtends ==
    [][(IsAppend(call'.op) /\ ret'.err = NoError)
         => /\ Len(m_timeList') = Len(m_timeList) + 1
            /\ SubSeq(m_timeList', 1, Len(m_timeList)) = m_timeList
            /\ m_first_timestep_months'
                   \in {m_first_timestep_months,
                        Append(m_first_timestep_months, Len(m_timeList))}
            /\ m_first_timestep_years'
                   \in {m_first_timestep_years,
                        Append(m_first_timestep_years, Len(m_timeList))}]_vars

\* An append that added a second month boundary and no year boundary.
C11_Witness ==
    /\ IsAppend(call.op)
    /\ ret.err = NoError
    /\ Len(m_first_timestep_months) >= 2
    /\ Last(m_first_timestep_months) = Len(m_timeList) - 1
    /\ Len(m_first_timestep_years) = 1
    /\ Last(m_first_timestep_years) < Len(m_timeList) - 1

C15_YearBoundaryIsMonthBoundary ==
    Constructed =>
        Elements(m_first_timestep_years) \subseteq Elements(m_first_timestep_months)

StrictlyIncreasingSeq(seq) == \A i, j \in 1 .. Len(seq) : i < j => seq[i] < seq[j]

\* What closest is meant to return on seq: the smallest element >= value, and
\* 0 when there is none.
SmallestAtOrAfter(seq, value) ==
    IF \E e \in Elements(seq) : e >= value
    THEN CHOOSE e \in Elements(seq) :
             /\ e >= value
             /\ \A f \in Elements(seq) : f >= value => e <= f
    ELSE 0

\* C17: in every reachable state the first-of-month and the first-of-year
\* sequences are strictly increasing (so without duplicates) and each element
\* e satisfies 1 <= e <= length - 1, so 0 is never an element; hence closest
\* returns 0 exactly when no element is >= value, and on these sorted
\* sequences its lower bound is the smallest element >= value.
C17_BoundarySequencesWellFormed ==
    Constructed =>
        \A S \in {m_first_timestep_months, m_first_timestep_years} :
            /\ StrictlyIncreasingSeq(S)
            /\ Elements(S) \subseteq 1 .. (Len(m_timeList) - 1)
            /\ \A value \in 0 .. Len(m_timeList) :
                   /\ closest(S, value) = SmallestAtOrAfter(S, value)
                   /\ closest(S, value) = 0 <=> ~ \E e \in Elements(S) : e >= value

\* A periodic query that went to closest with a start past every one of
\* several boundaries, and another boundary sequence of a different length.
C17_Witness ==
    /\ IsPeriodicQuery
    /\ call.a[4] > 1
    /\ Len(BoundarySeq(call.a[2])) >= 2
    /\ Len(BoundarySeq(~call.a[2])) = 1
    /\ call.a[1] \in Elements(BoundarySeq(call.a[2]))
    /\ closest(BoundarySeq(call.a[2]), call.a[3]) = 0

\* A TSTEP keyword whose listed day-counts are all strictly positive.
PositiveTSTEP(keyword) ==
    /\ keyword.name = "TSTEP"
    /\ \A i \in 1 .. Len(keyword.records[1][1]) : keyword.records[1][1][i].num > 0

\* C14: a TSTEP occurrence whose day-counts are all strictly positive appends
\* exactly one timestamp per day-count, each greater than the one before it,
\* and never fails with an ordering violation, day-counts of less than one
\* second included. Stated for the last keyword of a deck whose keywords
\* before it build a timeline.
C14_PositiveTSTEPAlwaysAppends ==
    (call.op = "TimeMap(deck)" /\ call.a # <<>>) =>
        LET deck   == call.a
            TSTEP  == deck[Len(deck)]
            before == TimeMapFromDeck(SubSeq(deck, 1, Len(deck) - 1))
        IN  (PositiveTSTEP(TSTEP) /\ before.err = NoError) =>
                /\ ret.err = NoError
                /\ Len(m_timeList) = Len(before.tm.timeList) + Len(TSTEP.records[1][1])
                /\ SubSeq(m_timeList, 1, Len(before.tm.timeList)) = before.tm.timeList
                /\ \A i \in 1 .. Len(m_timeList) - 1 : m_timeList[i] < m_timeList[i + 1]

\* The sum of the lengths of the steps 0 .. n - 1, each as getTimeStepLength
\* returns it.
RECURSIVE StepLengthSum(_, _)
StepLengthSum(tm, n) ==
    IF n = 0 THEN 0
    ELSE StepLengthSum(tm, n - 1)
         + (CHOOSE r \in getTimeStepLength(tm, n - 1) : TRUE).val

\* C18: the duration queries agree with one another: getTimePassedUntil(0) is
\* 0; getTimePassedUntil(i + 1) is getTimePassedUntil(i) plus
\* getTimeStepLength(i) for every i < numTimesteps(); getTotalTime() is
\* getTimePassedUntil(numTimesteps()) and the sum of all step lengths; and
\* getTotalTime() is 0 for a timeline of length 1.
C18_DurationsConsistent ==
    LET tm == TimeMapObject IN
    /\ (call.op = "getTimePassedUntil" /\ call.a[1] < size(tm)) =>
           /\ ret.err = NoError
           /\ call.a[1] = 0 => ret.val = 0
           /\ call.a[1] > 0 =>
                  {ret} = {[err |-> NoError, val |-> p.val + s.val] :
                              p \in getTimePassedUntil(tm, call.a[1] - 1),
                              s \in getTimeStepLength(tm, call.a[1] - 1)}
           /\ ret.val = StepLengthSum(tm, call.a[1])
    /\ call.op = "getTotalTime" =>
           /\ getTimePassedUntil(tm, numTimesteps(tm)) = {ret}
           /\ ret.val = StepLengthSum(tm, numTimesteps(tm))
           /\ size(tm) = 1 => ret.val = 0

\* The total time of a timeline of two steps of different lengths.
C18_Witness ==
    /\ call.op = "getTotalTime"
    /\ size(TimeMapObject) = 3
    /\ ret.val > 0
    /\ m_timeList[2] - m_timeList[1] # m_timeList[3] - m_timeList[2]

RECURSIVE Flatten(_)
Flatten(seqs) == IF seqs = <<>> THEN <<>> ELSE Head(seqs) \o Flatten(Tail(seqs))

IsKeywordLine(line) == tryGetValidKeyword(line).ok

\* The fields, terminators left out, of the lines that follow the last
\* keyword line of `text`, in input order.
RECURSIVE FieldsSinceKeyword(_)
FieldsSinceKeyword(text) ==
    IF text = <<>> \/ IsKeywordLine(Last(text)) THEN <<>>
    ELSE FieldsSinceKeyword(SubSeq(text, 1, Len(text) - 1))
         \o SelectSeq(Fields(Last(text), <<>>), LAMBDA f : f # <<"/">>)

\* C12: at most one raw keyword group is open at any time; a keyword line
\* received in InGroup finalizes the current group, holding its completed
\* records in input order, before the new group is opened; and fed KEYWORDA,
\* "1 2 3 /", KEYWORDB, the group KEYWORDA is closed with exactly the one
\* record of fields 1, 2, 3 before the group KEYWORDB is opened.
C12_OneGroupAtATime ==
    /\ [](/\ Len(rawKeywords) <= 1
          /\ lines = <<LineKEYWORDA, Line123, LineKEYWORDB>> =>
                 SubSeq(handed, 1, 3)
                     = <<Opened(LineKEYWORDA),
                         Closed([keyword |-> LineKEYWORDA,
                                 records |-> << << <<"1">>, <<"2">>, <<"3">> >> >>]),
                         Opened(LineKEYWORDB)>>)
    /\ [][(InGroup /\ lines' # lines /\ IsKeywordLine(Last(lines'))) =>
              LET current == rawKeywords[Len(rawKeywords)]
                  closed  == handed'[Len(handed) + 1]
                  keyword == tryGetValidKeyword(Last(lines')).result
              IN  /\ Len(handed') = Len(handed) + 2
                  /\ SubSeq(handed', 1, Len(handed)) = handed
                  /\ closed.ev = "close"
                  /\ closed.group.keyword = current.m_keyword
                  /\ SubSeq(closed.group.records, 1, Len(current.m_records))
                         = current.m_records
                  /\ Flatten(closed.group.records) = FieldsSinceKeyword(lines)
                  /\ handed'[Len(handed) + 2] = Opened(keyword)
                  /\ rawKeywords' = <<[m_keyword |-> keyword, m_records |-> <<>>,
                                       m_partialRecordString |-> <<>>]>>]_vars

\* KEYWORDA, "1 2 3 /", KEYWORDB have been fed, and the group of KEYWORDA was
\* closed before the group of KEYWORDB, now the one open, was opened.
C12_Witness ==
    /\ lines = <<LineKEYWORDA, Line123, LineKEYWORDB>>
    /\ Len(handed) = 3
    /\ handed[2].ev = "close"
    /\ rawKeywords # <<>>
    /\ rawKeywords[1].m_keyword = LineKEYWORDB

\* C16: the month-name table behaves as a read-only constant initialized
\* before first use: under any interleaving of two threads that each parse a
\* date record, every lookup of a recognized month name returns its month
\* number and never fails as an unknown month name, and no thread observes a
\* partially populated table.
C16_MonthTableIsConstant ==
    \A t \in DOMAIN threads :
        /\ threads[t].pc = "done" =>
               threads[t].ret = [err |-> NoError, val |-> eclipseMonthIndices[threads[t].month]]
        /\ threads[t].pc = "at" => monthIndices = eclipseMonthIndices

====
